---- MODULE Spec2Model ----
(***************************************************************************)
(* Store-rating backend (Express + Prisma).  The database tables User,     *)
(* Store and Rating are the state; every HTTP request is a process that    *)
(* runs its middleware chain and its controller.  A request performs one   *)
(* database operation per step (each `await prisma...`), together with the *)
(* synchronous code that follows it up to the next database operation, so  *)
(* requests interleave exactly at their awaits.                            *)
(***************************************************************************)
EXTENDS Integers, FiniteSets, Sequences, TLC

\* ------------------------------------------------------------------ bounds
\* Number of rating rows that can ever be created (ids are fresh uuids).
MaxRatings == 3
\* Number of requests served in one behaviour.
MaxRequests == 2
\* Number of user rows and of store rows that can ever be created.
MaxNewUsers == 2
MaxNewStores == 2
\* Number of ratings of one store that the statistics are computed over.
MaxSample == 20
\* Number of ratings the monthly trend is computed over.
MaxTrendRatings == 3

\* Request slots: requests that may be in flight at the same time.
Procs == {"p1", "p2"}

\* Seeded accounts and the store ids a request can name ("s2" never exists).
UserIds == {"u1", "u2", "u3", "u4"}
StoreIds == {"s1", "s2"}
RatingIds == 1..MaxRatings
\* The rating ids the update and delete requests name (1 is seeded, 2 is the
\* first one created).
RatingTargets == {1, 2}

\* Bearer tokens presented to the rating routes and to the admin routes:
\* the id the token decodes to, "none" when the header is missing.
UserTokens == {"u2", "u3", "u4", "none"}
AdminTokens == {"u1", "u3"}

\* Records the admin requests name.
DeleteUserTargets == {"u2", "u3"}
UpdateUserTargets == {"u2", "u3"}

\* Request payloads.  value 0 and comment/role "undef" stand for an absent
\* field; 6 is an out-of-range score.
ValueInputs == {0, 2, 6}
CommentInputs == {"undef", "good"}
RoleInputs == {"undef", "USER", "ADMIN"}
EmailInputs == {"undef"}

\* The ids (uuids) given to the rows created while the system runs.
FreshUserIds == <<"u5", "u6", "u7", "u8">>
FreshStoreIds == <<"s3", "s4", "s5", "s6">>

\* Inputs of the account requests: "e3" is the email of u3, "e9" is held by
\* nobody at the start; "u5" and "s3" are the first rows created.
AccountEmails == {"e3", "e9"}
CreateUserRoles == {"undef", "OWNER"}
ProfileTokens == {"u3", "u4"}
AccountUpdateTargets == {"u4"}
AccountDeleteTargets == {"u2", "u5"}
AccountStoreTargets == {"s1", "s3"}

\* Bearer tokens presented to every route group when access is examined:
\* an ADMIN, an OWNER and a USER, a missing header ("none") and a token that
\* jwt.verify rejects ("bad").
AccessTokens == {"u1", "u2", "u3", "none", "bad"}

\* Passwords, named by their hash: "h0" is the one every account is created
\* with, "hx" a wrong one, "h1" a new one.
PasswordTokens == {"u2", "u3"}
CurrentPasswords == {"h0", "hx"}

\* Rating scores.
Scores == 1..5

\* Calendar dates [year, month (0..11 as Date.getMonth), day].  Todays are
\* the days the dashboard is asked for; CreatedAts are the days ratings were
\* created; TrendValues are their scores.
NoDate == [year |-> 0, month |-> 0, day |-> 0]
Todays == {[year |-> 2025, month |-> 0, day |-> 15],
           [year |-> 2024, month |-> 11, day |-> 31]}
CreatedAts == {[year |-> 2024, month |-> 4, day |-> 1],
               [year |-> 2024, month |-> 5, day |-> 30],
               [year |-> 2024, month |-> 7, day |-> 20],
               [year |-> 2024, month |-> 11, day |-> 5],
               [year |-> 2025, month |-> 0, day |-> 10]}
TrendValues == {3, 4}

VARIABLES
    users,        \* table User:   id -> [role, email, password (the hash)]
    stores,       \* table Store:  id -> [ownerId, name]
    ratings,      \* table Rating: id -> [userId, storeId, value, comment]
    nextRatingId, \* next fresh rating id
    nextUserId,   \* index of the next fresh user id
    nextStoreId,  \* index of the next fresh store id
    req,          \* request slot -> the request it serves
    nreq,         \* requests started so far
    tomb,         \* history: deleted rating id -> the (userId, storeId) it had
    stat,         \* rating statistics: the ratings of allRatings folded in so far
    dash          \* owner dashboard trend: today and the allRatings it read

vars == <<users, stores, ratings, nextRatingId, nextUserId, nextStoreId,
          req, nreq, tomb, stat, dash>>

NoUser == [id |-> "none", role |-> "none", email |-> "none"]

NoReq ==
    [op |-> "none", pc |-> "idle", token |-> "none", user |-> NoUser,
     storeId |-> "none", ratingId |-> 0, userId |-> "none",
     value |-> 0, comment |-> "undef", role |-> "undef", email |-> "undef",
     name |-> "undef", currentPassword |-> "undef", newPassword |-> "undef",
     rec |-> NoUser, outcome |-> "none", err |-> "none",
     sawExisting |-> FALSE, raced |-> FALSE, wrote |-> FALSE]

RatingOps == {"createRating", "updateRating", "deleteRating"}
AdminOps == {"deleteStore", "deleteUser", "updateUser", "createUser",
             "createStoreWithOwner", "updateStore"}
OwnerOps == {"getOwnerDashboard", "getOwnerStore", "getStoreRatings"}
\* The operations that create a user account.
AccountCreateOps == {"register", "createUser", "createStoreWithOwner"}

\* ---------------------------------------------------------------- database
\* Rows of Rating with the given (userId, storeId).
RatingsOf(R, u, s) == {r \in DOMAIN R : R[r].userId = u /\ R[r].storeId = s}

RatingsOfStore(R, s) == {r \in DOMAIN R : R[r].storeId = s}

RatingsOfUser(R, u) == {r \in DOMAIN R : R[r].userId = u}

\* Variant: Store rows that do not refer to their owner.
StoresOwnedByUnlinked(S, u) == {}

\* Store row owned by user u (Store.ownerId is unique).
StoresOwnedBy(S, u) == {s \in DOMAIN S : S[s].ownerId = u}

Remove(f, D) == [x \in (DOMAIN f) \ D |-> f[x]]

Insert(f, k, v) == [x \in (DOMAIN f) \cup {k} |-> IF x = k THEN v ELSE f[x]]

\* Variant: the Rating table without @@unique([userId, storeId]).
RatingCreateErrorNoUnique(u, s) ==
    IF s \notin DOMAIN stores THEN "StoreMissing"
    ELSE IF u \notin DOMAIN users THEN "UserMissing"
    ELSE "none"

\* The error rating.create raises, "none" when the row is inserted:
\* the connected store and user must exist (required relations), and
\* @@unique([userId, storeId]) must hold.
RatingCreateError(u, s) ==
    IF s \notin DOMAIN stores THEN "StoreMissing"
    ELSE IF u \notin DOMAIN users THEN "UserMissing"
    ELSE IF RatingsOf(ratings, u, s) # {} THEN "Duplicate"
    ELSE "none"

\* --------------------------------------------------------------- responses
Finish(p, outcome, err) ==
    [req EXCEPT ![p].pc = "done", ![p].outcome = outcome, ![p].err = err]

Goto(p, pc) == [req EXCEPT ![p].pc = pc]

\* History kept with the requests: wrote tells that a deleteStore or deleteUser
\* still running has removed a row.  A createRating that entered its controller
\* while its pair was rated keeps sawExisting until a rating of that pair is
\* deleted.
Track(rq, R) ==
    [q \in Procs |->
        IF rq[q].sawExisting /\ RatingsOf(R, rq[q].user.id, rq[q].storeId) = {}
        THEN [rq[q] EXCEPT !.sawExisting = FALSE]
        ELSE rq[q]]

Bury(D) == [r \in (DOMAIN tomb) \cup D |->
              IF r \in D THEN [userId |-> ratings[r].userId,
                               storeId |-> ratings[r].storeId]
              ELSE tomb[r]]

\* ------------------------------------------------------------- middleware
\* Variant: verifyUser that lets an ADMIN through as well.
VerifyUserOrAdmin(user) == user.role \in {"USER", "ADMIN"}

\* verifyUser: the role attached by verifyToken must be exactly USER.
VerifyUser(user) == user.role = "USER"

\* isAdmin: the role attached by verifyToken must be exactly ADMIN.
IsAdmin(user) == user.role = "ADMIN"

\* Variant: a score schema without its upper limit.
ScoreOkNoMax(v) == v >= 1

\* scoreSchema: an integer from 1 to 5.
ScoreOk(v) == v \in 1..5

\* ratingCreateSchema: value required, comment optional.
ValidateRatingCreate(r) == ScoreOk(r.value)

\* ratingUpdateSchema: both optional, at least one present.
ValidateRatingUpdate(r) ==
    /\ r.value = 0 \/ ScoreOk(r.value)
    /\ ~(r.value = 0 /\ r.comment = "undef")

\* The controller's first database operation.
FirstPc(op) ==
    CASE op = "createRating" -> "cr_findStore"
      [] op = "updateRating" -> "canModifyRating"
      [] op = "deleteRating" -> "canModifyRating"
      [] op = "deleteStore" -> "ds_find"
      [] op = "deleteUser" -> "du_find"
      [] op = "updateUser" -> "uu_find"
      [] op = "createUser" -> "cu_findEmail"
      [] op = "createStoreWithOwner" -> "cs_findEmail"
      [] op = "updateStore" -> "us_find"
      [] op = "updateUserProfile" -> "up_findEmail"
      [] op \in OwnerOps -> "vo_role"
      [] op = "updatePassword" -> "pw_find"
      [] op = "isStoreOwner" -> "iso_find"

\* Variant: the payload validated before the role is checked.
GuardsValidateFirst(r, user) ==
    IF r.op \in RatingOps
    THEN IF r.op = "createRating" /\ ~ValidateRatingCreate(r)
         THEN "ValidationFailed"
         ELSE IF r.op = "updateRating" /\ ~ValidateRatingUpdate(r)
              THEN "ValidationFailed"
         ELSE IF ~VerifyUser(user) THEN "Forbidden"
         ELSE "next"
    ELSE IF r.op \in AdminOps
    THEN IF ~IsAdmin(user) THEN "Forbidden" ELSE "next"
    ELSE "next"

\* What the synchronous middleware after verifyToken answers for request r
\* with req.user = user: "next" when the request reaches its first await.
Guards(r, user) ==
    IF r.op \in RatingOps
    THEN IF ~VerifyUser(user) THEN "Forbidden"
         ELSE IF r.op = "createRating" /\ ~ValidateRatingCreate(r)
              THEN "ValidationFailed"
         ELSE IF r.op = "updateRating" /\ ~ValidateRatingUpdate(r)
              THEN "ValidationFailed"
         ELSE "next"
    ELSE IF r.op \in AdminOps
    THEN IF ~IsAdmin(user) THEN "Forbidden" ELSE "next"
    ELSE "next"

\* ---------------------------------------------------------------- requests
CanStart(p) == req[p].pc \in {"idle", "done"} /\ nreq < MaxRequests

Begin(p, r) ==
    /\ req' = [req EXCEPT ![p] = r]
    /\ nreq' = nreq + 1
    /\ UNCHANGED <<users, stores, ratings, nextRatingId, nextUserId, nextStoreId,
                   tomb, stat, dash>>

\* POST /api/user/stores/:id/ratings
StartCreateRating(p) ==
    /\ CanStart(p)
    /\ \E t \in UserTokens, s \in StoreIds, v \in ValueInputs, c \in CommentInputs :
          Begin(p, [NoReq EXCEPT !.op = "createRating", !.pc = "verifyToken",
                       !.token = t, !.storeId = s, !.value = v, !.comment = c])

\* PATCH /api/user/ratings/:id
StartUpdateRating(p) ==
    /\ CanStart(p)
    /\ \E t \in UserTokens, r \in RatingTargets, v \in ValueInputs, c \in CommentInputs :
          Begin(p, [NoReq EXCEPT !.op = "updateRating", !.pc = "verifyToken",
                       !.token = t, !.ratingId = r, !.value = v, !.comment = c])

\* DELETE /api/user/ratings/:id
StartDeleteRating(p) ==
    /\ CanStart(p)
    /\ \E t \in UserTokens, r \in RatingTargets :
          Begin(p, [NoReq EXCEPT !.op = "deleteRating", !.pc = "verifyToken",
                       !.token = t, !.ratingId = r])

\* generateToken: the role a token carries is the role its user had when it
\* was issued, here the role the user is seeded with.
TokenRole(t) == CASE t = "u1" -> "ADMIN" [] t = "u2" -> "OWNER" [] OTHER -> "USER"

\* Variant: verifyToken that trusts the role inside the token and reads no
\* user.
VerifyTokenIssuedRole(p) ==
    /\ req[p].pc = "verifyToken"
    /\ LET r == req[p] IN
       IF r.token = "none"
       THEN req' = Finish(p, "Unauthenticated", "none")
       ELSE IF r.token = "bad"
       THEN req' = Finish(p, "Forbidden", "InvalidToken")
       ELSE LET user == [id |-> r.token, role |-> TokenRole(r.token),
                         email |-> "none"]
                g == Guards(r, user)
                r1 == [r EXCEPT !.user = user]
            IN req' = [req EXCEPT ![p] =
                  IF g # "next"
                  THEN [r1 EXCEPT !.pc = "done", !.outcome = g]
                  ELSE [r1 EXCEPT !.pc = FirstPc(r.op),
                          !.sawExisting = (r.op = "createRating"
                              /\ RatingsOf(ratings, user.id, r.storeId) # {})]]
    /\ UNCHANGED <<users, stores, ratings, nextRatingId, nextUserId, nextStoreId, nreq, stat, dash, tomb>>

\* verifyToken, then the synchronous middleware of the route.
VerifyToken(p) ==
    /\ req[p].pc = "verifyToken"
    /\ LET r == req[p] IN
       IF r.token = "none"
       THEN req' = Finish(p, "Unauthenticated", "none")
       ELSE IF r.token = "bad"
       THEN req' = Finish(p, "Forbidden", "InvalidToken")
       ELSE IF r.token \notin DOMAIN users
       THEN req' = Finish(p, "Unauthenticated", "none")
       ELSE LET user == [id |-> r.token, role |-> users[r.token].role,
                         email |-> users[r.token].email]
                g == Guards(r, user)
                r1 == [r EXCEPT !.user = user]
            IN req' = [req EXCEPT ![p] =
                  IF g # "next"
                  THEN [r1 EXCEPT !.pc = "done", !.outcome = g]
                  ELSE [r1 EXCEPT !.pc = FirstPc(r.op),
                          !.sawExisting = (r.op = "createRating"
                              /\ RatingsOf(ratings, user.id, r.storeId) # {})]]
    /\ UNCHANGED <<users, stores, ratings, nextRatingId, nextUserId, nextStoreId, nreq, stat, dash, tomb>>

\* createRating: prisma.store.findUnique
CreateRatingFindStore(p) ==
    /\ req[p].pc = "cr_findStore"
    /\ req' = IF req[p].storeId \notin DOMAIN stores
              THEN Finish(p, "NotFound", "none")
              ELSE Goto(p, "cr_findRating")
    /\ UNCHANGED <<users, stores, ratings, nextRatingId, nextUserId, nextStoreId, nreq, stat, dash, tomb>>

\* Variant: createRating without its existing-rating check.
CreateRatingFindRatingSkip(p) ==
    /\ req[p].pc = "cr_findRating"
    /\ req' = Goto(p, "cr_create")
    /\ UNCHANGED <<users, stores, ratings, nextRatingId, nextUserId, nextStoreId, nreq, stat, dash, tomb>>

\* createRating: prisma.rating.findFirst
CreateRatingFindRating(p) ==
    /\ req[p].pc = "cr_findRating"
    /\ LET r == req[p]
           rivals == {q \in Procs \ {p} : /\ req[q].pc = "cr_create"
                                          /\ req[q].user.id = r.user.id
                                          /\ req[q].storeId = r.storeId}
       IN req' = IF RatingsOf(ratings, r.user.id, r.storeId) # {}
                 THEN Finish(p, "Conflict", "none")
                 ELSE [q \in Procs |->
                         IF q = p THEN [r EXCEPT !.pc = "cr_create",
                                                 !.raced = (rivals # {})]
                         ELSE IF q \in rivals THEN [req[q] EXCEPT !.raced = TRUE]
                         ELSE req[q]]
    /\ UNCHANGED <<users, stores, ratings, nextRatingId, nextUserId, nextStoreId, nreq, stat, dash, tomb>>

\* createRating: prisma.rating.create
CreateRatingCreate(p) ==
    /\ req[p].pc = "cr_create"
    /\ LET r == req[p]
           e == RatingCreateError(r.user.id, r.storeId)
       IN IF e # "none"
          THEN /\ req' = Finish(p, "ServerError", e)
               /\ UNCHANGED <<ratings, nextRatingId>>
          ELSE /\ nextRatingId <= MaxRatings
               /\ ratings' = Insert(ratings, nextRatingId,
                      [userId |-> r.user.id, storeId |-> r.storeId,
                       value |-> r.value, comment |-> r.comment])
               /\ nextRatingId' = nextRatingId + 1
               /\ req' = [Finish(p, "Created", "none") EXCEPT ![p].ratingId = nextRatingId]
    /\ UNCHANGED <<users, stores, nextUserId, nextStoreId, nreq, stat, dash, tomb>>

\* Variant: canModifyRating that only checks that the rating exists.
CanModifyRatingAnyUser(p) ==
    /\ req[p].pc = "canModifyRating"
    /\ LET r == req[p] IN
       req' = IF r.ratingId \notin DOMAIN ratings
              THEN Finish(p, "NotFound", "none")
              ELSE [req EXCEPT ![p].rec = [NoUser EXCEPT !.id = ratings[r.ratingId].userId],
                               ![p].pc = IF r.op = "updateRating"
                                         THEN "ur_update" ELSE "dr_delete"]
    /\ UNCHANGED <<users, stores, ratings, nextRatingId, nextUserId, nextStoreId, nreq, stat, dash, tomb>>

\* canModifyRating: prisma.rating.findUnique
CanModifyRating(p) ==
    /\ req[p].pc = "canModifyRating"
    /\ LET r == req[p] IN
       req' = IF r.ratingId \notin DOMAIN ratings
              THEN Finish(p, "NotFound", "none")
              ELSE LET rating == ratings[r.ratingId]
                       r1 == [r EXCEPT !.rec = [NoUser EXCEPT !.id = rating.userId]]
                   IN [req EXCEPT ![p] =
                         IF rating.userId # r.user.id
                         THEN [r1 EXCEPT !.pc = "done", !.outcome = "Forbidden"]
                         ELSE [r1 EXCEPT !.pc = IF r.op = "updateRating"
                                               THEN "ur_update" ELSE "dr_delete"]]
    /\ UNCHANGED <<users, stores, ratings, nextRatingId, nextUserId, nextStoreId, nreq, stat, dash, tomb>>

\* Variant: updateData built from both fields whether present or not.
UpdateDataOverwrite(rating, r) ==
    [rating EXCEPT !.value = r.value, !.comment = r.comment]

\* updateData: only the fields the patch carries.
UpdateData(rating, r) ==
    [rating EXCEPT !.value = IF r.value # 0 THEN r.value ELSE @,
                   !.comment = IF r.comment # "undef" THEN r.comment ELSE @]

\* updateRating: prisma.rating.update
UpdateRatingUpdate(p) ==
    /\ req[p].pc = "ur_update"
    /\ LET r == req[p] IN
       IF r.ratingId \notin DOMAIN ratings
       THEN /\ req' = Finish(p, "ServerError", "RatingMissing")
            /\ UNCHANGED ratings
       ELSE /\ ratings' = [ratings EXCEPT ![r.ratingId] = UpdateData(@, r)]
            /\ req' = Finish(p, "OK", "none")
    /\ UNCHANGED <<users, stores, nextRatingId, nextUserId, nextStoreId, nreq, stat, dash, tomb>>

\* Variant: deleteRating that answers without removing the row.
DeleteRatingDeleteKeep(p) ==
    /\ req[p].pc = "dr_delete"
    /\ req' = IF req[p].ratingId \notin DOMAIN ratings
              THEN Finish(p, "ServerError", "RatingMissing")
              ELSE Finish(p, "OK", "none")
    /\ UNCHANGED <<users, stores, ratings, nextRatingId, nextUserId, nextStoreId, nreq, stat, dash, tomb>>

\* deleteRating: prisma.rating.delete
DeleteRatingDelete(p) ==
    /\ req[p].pc = "dr_delete"
    /\ LET r == req[p] IN
       IF r.ratingId \notin DOMAIN ratings
       THEN /\ req' = Finish(p, "ServerError", "RatingMissing")
            /\ UNCHANGED <<ratings, tomb>>
       ELSE /\ ratings' = Remove(ratings, {r.ratingId})
            /\ tomb' = Bury({r.ratingId})
            /\ req' = Track(Finish(p, "OK", "none"), ratings')
    /\ UNCHANGED <<users, stores, nextRatingId, nextUserId, nextStoreId, nreq, stat, dash>>

\* -------------------------------------------------------------- admin routes
\* DELETE /api/admin/stores/:id
StartDeleteStore(p) ==
    /\ CanStart(p)
    /\ \E t \in AdminTokens, s \in StoreIds :
          Begin(p, [NoReq EXCEPT !.op = "deleteStore", !.pc = "verifyToken",
                       !.token = t, !.storeId = s])

\* DELETE /api/admin/users/:id
StartDeleteUser(p) ==
    /\ CanStart(p)
    /\ \E t \in AdminTokens, u \in DeleteUserTargets :
          Begin(p, [NoReq EXCEPT !.op = "deleteUser", !.pc = "verifyToken",
                       !.token = t, !.userId = u])

\* PATCH /api/admin/users/:id
StartUpdateUser(p) ==
    /\ CanStart(p)
    /\ \E t \in AdminTokens, u \in UpdateUserTargets, ro \in RoleInputs,
          e \in EmailInputs :
          Begin(p, [NoReq EXCEPT !.op = "updateUser", !.pc = "verifyToken",
                       !.token = t, !.userId = u, !.role = ro, !.email = e])

\* deleteStore: prisma.store.findUnique, include owner
DeleteStoreFind(p) ==
    /\ req[p].pc = "ds_find"
    /\ LET r == req[p] IN
       req' = IF r.storeId \notin DOMAIN stores
              THEN Finish(p, "NotFound", "none")
              ELSE LET o == stores[r.storeId].ownerId IN
                   [req EXCEPT ![p].pc = "ds_delRatings",
                               ![p].rec = [id |-> o, role |-> users[o].role,
                                           email |-> users[o].email]]
    /\ UNCHANGED <<users, stores, ratings, nextRatingId, nextUserId, nextStoreId, nreq, stat, dash, tomb>>

\* deleteStore: prisma.rating.deleteMany where storeId
DeleteStoreDeleteRatings(p) ==
    /\ req[p].pc = "ds_delRatings"
    /\ LET D == RatingsOfStore(ratings, req[p].storeId) IN
       /\ ratings' = Remove(ratings, D)
       /\ tomb' = Bury(D)
       /\ req' = Track([Goto(p, "ds_delStore") EXCEPT ![p].wrote = (D # {})],
                       ratings')
    /\ UNCHANGED <<users, stores, nextRatingId, nextUserId, nextStoreId, nreq, stat, dash>>

\* Variant: a Store row that can be deleted while ratings refer to it.
StoreDeleteErrorNoRestrict(s) ==
    IF s \notin DOMAIN stores THEN "StoreMissing" ELSE "none"

\* The error store.delete raises: the row must exist and no Rating row may
\* still reference it (required relation, no onDelete action).
StoreDeleteError(s) ==
    IF s \notin DOMAIN stores THEN "StoreMissing"
    ELSE IF RatingsOfStore(ratings, s) # {} THEN "StoreHasRatings"
    ELSE "none"

\* deleteStore: prisma.store.delete, then the test of the owner's role
DeleteStoreDelete(p) ==
    /\ req[p].pc = "ds_delStore"
    /\ LET r == req[p]
           e == StoreDeleteError(r.storeId)
       IN IF e # "none"
          THEN /\ req' = Finish(p, "ServerError", e)
               /\ UNCHANGED stores
          ELSE /\ stores' = Remove(stores, {r.storeId})
               /\ req' = IF r.rec.role # "ADMIN"
                         THEN [req EXCEPT ![p].pc = "ds_updRole",
                                          ![p].wrote = TRUE]
                         ELSE Finish(p, "OK", "none")
    /\ UNCHANGED <<users, ratings, nextRatingId, nextUserId, nextStoreId, nreq, stat, dash, tomb>>

\* Variant: deleteStore that leaves the owner's role as it is.
DeleteStoreUpdateOwnerSkip(p) ==
    /\ req[p].pc = "ds_updRole"
    /\ req' = IF req[p].rec.id \notin DOMAIN users
              THEN Finish(p, "ServerError", "UserMissing")
              ELSE Finish(p, "OK", "none")
    /\ UNCHANGED <<users, stores, ratings, nextRatingId, nextUserId, nextStoreId, nreq, stat, dash, tomb>>

\* deleteStore: prisma.user.update role USER
DeleteStoreUpdateOwner(p) ==
    /\ req[p].pc = "ds_updRole"
    /\ LET o == req[p].rec.id IN
       IF o \notin DOMAIN users
       THEN /\ req' = Finish(p, "ServerError", "UserMissing")
            /\ UNCHANGED users
       ELSE /\ users' = [users EXCEPT ![o].role = "USER"]
            /\ req' = Finish(p, "OK", "none")
    /\ UNCHANGED <<stores, ratings, nextRatingId, nextUserId, nextStoreId, nreq, stat, dash, tomb>>

\* Variant: deleteUser without its associated-store guard.
DeleteUserFindNoGuard(p) ==
    /\ req[p].pc = "du_find"
    /\ req' = IF req[p].userId \notin DOMAIN users
              THEN Finish(p, "NotFound", "none")
              ELSE Goto(p, "du_delRatings")
    /\ UNCHANGED <<users, stores, ratings, nextRatingId, nextUserId, nextStoreId, nreq, stat, dash, tomb>>

\* deleteUser: prisma.user.findUnique, include store
DeleteUserFind(p) ==
    /\ req[p].pc = "du_find"
    /\ LET r == req[p] IN
       req' = IF r.userId \notin DOMAIN users
              THEN Finish(p, "NotFound", "none")
              ELSE IF StoresOwnedBy(stores, r.userId) # {}
              THEN Finish(p, "Conflict", "none")
              ELSE Goto(p, "du_delRatings")
    /\ UNCHANGED <<users, stores, ratings, nextRatingId, nextUserId, nextStoreId, nreq, stat, dash, tomb>>

\* deleteUser: prisma.rating.deleteMany where userId
DeleteUserDeleteRatings(p) ==
    /\ req[p].pc = "du_delRatings"
    /\ LET D == RatingsOfUser(ratings, req[p].userId) IN
       /\ ratings' = Remove(ratings, D)
       /\ tomb' = Bury(D)
       /\ req' = Track([Goto(p, "du_delUser") EXCEPT ![p].wrote = (D # {})],
                       ratings')
    /\ UNCHANGED <<users, stores, nextRatingId, nextUserId, nextStoreId, nreq, stat, dash>>

\* The error user.delete raises: the row must exist and no Rating or Store
\* row may still reference it.
UserDeleteError(u) ==
    IF u \notin DOMAIN users THEN "UserMissing"
    ELSE IF RatingsOfUser(ratings, u) # {} THEN "UserHasRatings"
    ELSE IF StoresOwnedBy(stores, u) # {} THEN "UserHasStore"
    ELSE "none"

\* deleteUser: prisma.user.delete
DeleteUserDelete(p) ==
    /\ req[p].pc = "du_delUser"
    /\ LET r == req[p]
           e == UserDeleteError(r.userId)
       IN IF e # "none"
          THEN /\ req' = Finish(p, "ServerError", e)
               /\ UNCHANGED users
          ELSE /\ users' = Remove(users, {r.userId})
               /\ req' = Finish(p, "OK", "none")
    /\ UNCHANGED <<stores, ratings, nextRatingId, nextUserId, nextStoreId, nreq, stat, dash, tomb>>

\* Users holding the given email.
UsersWithEmail(e) == {u \in DOMAIN users : users[u].email = e}

\* Request q, other than p, holds an uncommitted User row with email e in its
\* transaction: a write of the same email waits for that transaction to end.
PendingEmail(p, e) ==
    \E q \in Procs \ {p} : req[q].pc = "cs_txStore" /\ req[q].rec.email = e

\* updateUser: prisma.user.findUnique by id
UpdateUserFind(p) ==
    /\ req[p].pc = "uu_find"
    /\ LET r == req[p] IN
       req' = IF r.userId \notin DOMAIN users
              THEN Finish(p, "NotFound", "none")
              ELSE IF r.email # "undef" /\ r.email # users[r.userId].email
              THEN Goto(p, "uu_findEmail")
              ELSE Goto(p, "uu_update")
    /\ UNCHANGED <<users, stores, ratings, nextRatingId, nextUserId, nextStoreId, nreq, stat, dash, tomb>>

\* updateUser: prisma.user.findUnique by email
UpdateUserFindEmail(p) ==
    /\ req[p].pc = "uu_findEmail"
    /\ req' = IF UsersWithEmail(req[p].email) # {}
              THEN Finish(p, "Conflict", "none")
              ELSE Goto(p, "uu_update")
    /\ UNCHANGED <<users, stores, ratings, nextRatingId, nextUserId, nextStoreId, nreq, stat, dash, tomb>>

\* Variant: the User table without @unique on email.
UserUpdateErrorNoUnique(u, e) ==
    IF u \notin DOMAIN users THEN "UserMissing" ELSE "none"

\* The error user.update raises: the row must exist and email is @unique.
UserUpdateError(u, e) ==
    IF u \notin DOMAIN users THEN "UserMissing"
    ELSE IF e # "undef" /\ UsersWithEmail(e) \ {u} # {} THEN "Duplicate"
    ELSE "none"

\* updateUser: prisma.user.update with the fields the body carries
UpdateUserUpdate(p) ==
    /\ req[p].pc = "uu_update"
    /\ ~PendingEmail(p, req[p].email)
    /\ LET r == req[p]
           e == UserUpdateError(r.userId, r.email)
       IN IF e # "none"
          THEN /\ req' = Finish(p, "ServerError", e)
               /\ UNCHANGED users
          ELSE /\ users' = [users EXCEPT
                     ![r.userId].role = IF r.role # "undef" THEN r.role ELSE @,
                     ![r.userId].email = IF r.email # "undef" THEN r.email ELSE @]
               /\ req' = Finish(p, "OK", "none")
    /\ UNCHANGED <<stores, ratings, nextRatingId, nextUserId, nextStoreId, nreq, stat, dash, tomb>>

\* ----------------------------------------------------------------- accounts
NewUserId == FreshUserIds[nextUserId]

NewStoreId == FreshStoreIds[nextStoreId]

\* The error user.create raises, "none" when the row is inserted: email is
\* @unique.
UserCreateError(e) == IF UsersWithEmail(e) # {} THEN "Duplicate" ELSE "none"

\* The error store.create raises: ownerId is @unique and the owner must exist.
StoreCreateError(o) ==
    IF StoresOwnedBy(stores, o) # {} THEN "Duplicate" ELSE "none"

\* History kept with the requests: request p passes its email-exists check
\* while the requests in rivals have passed theirs for the same email and
\* have not written yet.
PassCheck(p, pc) ==
    LET r == req[p]
        rivals == {q \in Procs \ {p} :
                      /\ req[q].op \in AccountCreateOps
                      /\ req[q].pc \in {"rg_create", "cu_create", "cs_txUser"}
                      /\ req[q].email = r.email}
    IN [q \in Procs |->
          IF q = p THEN [r EXCEPT !.pc = pc, !.raced = (rivals # {})]
          ELSE IF q \in rivals THEN [req[q] EXCEPT !.raced = TRUE]
          ELSE req[q]]

\* The user.create of register and createUser.
UserCreate(p, role) ==
    /\ ~PendingEmail(p, req[p].email)
    /\ LET r == req[p]
           e == UserCreateError(r.email)
       IN IF e # "none"
          THEN /\ req' = Finish(p, "ServerError", e)
               /\ UNCHANGED <<users, nextUserId>>
          ELSE /\ nextUserId <= MaxNewUsers
               /\ users' = Insert(users, NewUserId,
                                  [role |-> role, email |-> r.email, password |-> "h0"])
               /\ nextUserId' = nextUserId + 1
               /\ req' = [Finish(p, "Created", "none") EXCEPT ![p].userId = NewUserId]
    /\ UNCHANGED <<stores, ratings, nextRatingId, nextStoreId, nreq, stat, dash, tomb>>

\* POST /api/auth/register (public)
StartRegister(p) ==
    /\ CanStart(p)
    /\ \E e \in AccountEmails :
          Begin(p, [NoReq EXCEPT !.op = "register", !.pc = "rg_findEmail",
                       !.email = e])

\* register: prisma.user.findUnique by email
RegisterFindEmail(p) ==
    /\ req[p].pc = "rg_findEmail"
    /\ req' = IF UsersWithEmail(req[p].email) # {}
              THEN Finish(p, "Conflict", "none")
              ELSE PassCheck(p, "rg_create")
    /\ UNCHANGED <<users, stores, ratings, nextRatingId, nextUserId, nextStoreId, nreq, stat, dash, tomb>>

\* register: prisma.user.create with role USER
RegisterCreate(p) ==
    /\ req[p].pc = "rg_create"
    /\ UserCreate(p, "USER")

\* POST /api/admin/users
StartCreateUser(p) ==
    /\ CanStart(p)
    /\ \E e \in AccountEmails, ro \in CreateUserRoles :
          Begin(p, [NoReq EXCEPT !.op = "createUser", !.pc = "verifyToken",
                       !.token = "u1", !.email = e, !.role = ro])

\* createUser: prisma.user.findUnique by email
CreateUserFindEmail(p) ==
    /\ req[p].pc = "cu_findEmail"
    /\ req' = IF UsersWithEmail(req[p].email) # {}
              THEN Finish(p, "Conflict", "none")
              ELSE PassCheck(p, "cu_create")
    /\ UNCHANGED <<users, stores, ratings, nextRatingId, nextUserId, nextStoreId, nreq, stat, dash, tomb>>

\* createUser: prisma.user.create with role || 'USER'
CreateUserCreate(p) ==
    /\ req[p].pc = "cu_create"
    /\ UserCreate(p, IF req[p].role # "undef" THEN req[p].role ELSE "USER")

\* POST /api/admin/stores
StartCreateStoreWithOwner(p) ==
    /\ CanStart(p)
    /\ \E e \in AccountEmails :
          Begin(p, [NoReq EXCEPT !.op = "createStoreWithOwner",
                       !.pc = "verifyToken", !.token = "u1", !.email = e,
                       !.name = "n3"])

\* Variant: createStoreWithOwner without its email-exists check.
CreateStoreFindEmailSkip(p) ==
    /\ req[p].pc = "cs_findEmail"
    /\ req' = PassCheck(p, "cs_txUser")
    /\ UNCHANGED <<users, stores, ratings, nextRatingId, nextUserId, nextStoreId, nreq, stat, dash, tomb>>

\* createStoreWithOwner: prisma.user.findUnique by owner.email
CreateStoreFindEmail(p) ==
    /\ req[p].pc = "cs_findEmail"
    /\ req' = IF UsersWithEmail(req[p].email) # {}
              THEN Finish(p, "Conflict", "none")
              ELSE PassCheck(p, "cs_txUser")
    /\ UNCHANGED <<users, stores, ratings, nextRatingId, nextUserId, nextStoreId, nreq, stat, dash, tomb>>

\* Variant: the owner created outside a transaction (prisma.user.create).
CreateStoreTxUserDirect(p) ==
    /\ req[p].pc = "cs_txUser"
    /\ LET r == req[p]
           e == UserCreateError(r.email)
       IN IF e # "none"
          THEN /\ req' = Finish(p, "ServerError", e)
               /\ UNCHANGED <<users, nextUserId>>
          ELSE /\ nextUserId <= MaxNewUsers
               /\ users' = Insert(users, NewUserId,
                                  [role |-> "OWNER", email |-> r.email,
                                   password |-> "h0"])
               /\ nextUserId' = nextUserId + 1
               /\ req' = [req EXCEPT ![p].pc = "cs_txStore",
                            ![p].rec = [id |-> NewUserId, role |-> "OWNER",
                                        email |-> r.email]]
    /\ UNCHANGED <<stores, ratings, nextRatingId, nextStoreId, nreq, stat, dash, tomb>>

\* createStoreWithOwner: inside prisma.$transaction, tx.user.create with role
\* OWNER.  The row is held in the transaction (req.rec) and is not in the
\* User table until the transaction commits; an error rolls back.
CreateStoreTxUser(p) ==
    /\ req[p].pc = "cs_txUser"
    /\ ~PendingEmail(p, req[p].email)
    /\ LET r == req[p]
           e == UserCreateError(r.email)
       IN IF e # "none"
          THEN /\ req' = Finish(p, "ServerError", e)
               /\ UNCHANGED nextUserId
          ELSE /\ nextUserId <= MaxNewUsers
               /\ nextUserId' = nextUserId + 1
               /\ req' = [req EXCEPT ![p].pc = "cs_txStore",
                            ![p].rec = [id |-> NewUserId, role |-> "OWNER",
                                        email |-> r.email]]
    /\ UNCHANGED <<users, stores, ratings, nextRatingId, nextStoreId, nreq, stat, dash, tomb>>

\* createStoreWithOwner: tx.store.create with ownerId newOwner.id, then the
\* commit, which puts both rows in their tables at once.
CreateStoreTxStore(p) ==
    /\ req[p].pc = "cs_txStore"
    /\ LET r == req[p]
           e == StoreCreateError(r.rec.id)
       IN IF e # "none"
          THEN /\ req' = Finish(p, "ServerError", e)
               /\ UNCHANGED <<users, stores, nextStoreId>>
          ELSE /\ nextStoreId <= MaxNewStores
               /\ users' = Insert(users, r.rec.id,
                                  [role |-> r.rec.role, email |-> r.rec.email,
                                   password |-> "h0"])
               /\ stores' = Insert(stores, NewStoreId,
                                   [ownerId |-> r.rec.id, name |-> r.name])
               /\ nextStoreId' = nextStoreId + 1
               /\ req' = [Finish(p, "Created", "none") EXCEPT
                            ![p].userId = r.rec.id, ![p].storeId = NewStoreId]
    /\ UNCHANGED <<ratings, nextRatingId, nextUserId, nreq, stat, dash, tomb>>

\* createStoreWithOwner: tx.store.create rejects (the database fails the
\* statement or the transaction times out); the transaction rolls back and
\* the catch block answers 500.
CreateStoreTxAbort(p) ==
    /\ req[p].pc = "cs_txStore"
    /\ req' = Finish(p, "ServerError", "TxFailed")
    /\ UNCHANGED <<users, stores, ratings, nextRatingId, nextUserId, nextStoreId, nreq, stat, dash, tomb>>

\* PATCH /api/admin/users/:id with an email
StartUpdateUserEmail(p) ==
    /\ CanStart(p)
    /\ \E u \in AccountUpdateTargets, e \in AccountEmails :
          Begin(p, [NoReq EXCEPT !.op = "updateUser", !.pc = "verifyToken",
                       !.token = "u1", !.userId = u, !.email = e])

\* updateUserProfile runs for req.user with the email of req.body.
StartUpdateUserProfile(p) ==
    /\ CanStart(p)
    /\ \E t \in ProfileTokens, e \in AccountEmails :
          Begin(p, [NoReq EXCEPT !.op = "updateUserProfile",
                       !.pc = "verifyToken", !.token = t, !.userId = t,
                       !.email = e])

\* updateUserProfile: if (email) prisma.user.findUnique by email
UpdateProfileFindEmail(p) ==
    /\ req[p].pc = "up_findEmail"
    /\ LET r == req[p] IN
       req' = IF r.email # "undef" /\ UsersWithEmail(r.email) \ {r.user.id} # {}
              THEN Finish(p, "Conflict", "none")
              ELSE Goto(p, "up_update")
    /\ UNCHANGED <<users, stores, ratings, nextRatingId, nextUserId, nextStoreId, nreq, stat, dash, tomb>>

\* PATCH /api/auth/password
StartUpdatePassword(p) ==
    /\ CanStart(p)
    /\ \E t \in PasswordTokens, c \in CurrentPasswords :
          Begin(p, [NoReq EXCEPT !.op = "updatePassword", !.pc = "verifyToken",
                       !.token = t, !.userId = t, !.currentPassword = c,
                       !.newPassword = "h1"])

\* updatePassword: prisma.user.findUnique, then bcrypt.compare; a user deleted
\* since verifyToken makes user.password throw.
UpdatePasswordFind(p) ==
    /\ req[p].pc = "pw_find"
    /\ LET r == req[p] IN
       req' = IF r.user.id \notin DOMAIN users
              THEN Finish(p, "ServerError", "UserMissing")
              ELSE IF users[r.user.id].password # r.currentPassword
              THEN Finish(p, "Unauthenticated", "none")
              ELSE Goto(p, "pw_update")
    /\ UNCHANGED <<users, stores, ratings, nextRatingId, nextUserId, nextStoreId, nreq, stat, dash, tomb>>

\* updatePassword: prisma.user.update of password
UpdatePasswordUpdate(p) ==
    /\ req[p].pc = "pw_update"
    /\ LET r == req[p] IN
       IF r.user.id \notin DOMAIN users
       THEN /\ req' = Finish(p, "ServerError", "UserMissing")
            /\ UNCHANGED users
       ELSE /\ users' = [users EXCEPT ![r.user.id].password = r.newPassword]
            /\ req' = Finish(p, "OK", "none")
    /\ UNCHANGED <<stores, ratings, nextRatingId, nextUserId, nextStoreId, nreq, stat, dash, tomb>>

\* Variant: updateUserProfile that also writes a role taken from the body.
UpdateProfileUpdateWithRole(p) ==
    /\ req[p].pc = "up_update"
    /\ ~PendingEmail(p, req[p].email)
    /\ LET r == req[p]
           e == UserUpdateError(r.user.id, r.email)
       IN IF e # "none"
          THEN /\ req' = Finish(p, "ServerError", e)
               /\ UNCHANGED users
          ELSE /\ users' = [users EXCEPT
                     ![r.user.id].email = IF r.email # "undef" THEN r.email ELSE @,
                     ![r.user.id].role = "ADMIN"]
               /\ req' = Finish(p, "OK", "none")
    /\ UNCHANGED <<stores, ratings, nextRatingId, nextUserId, nextStoreId, nreq, stat, dash, tomb>>

\* updateUserProfile: prisma.user.update where id = req.user.id
UpdateProfileUpdate(p) ==
    /\ req[p].pc = "up_update"
    /\ ~PendingEmail(p, req[p].email)
    /\ LET r == req[p]
           e == UserUpdateError(r.user.id, r.email)
       IN IF e # "none"
          THEN /\ req' = Finish(p, "ServerError", e)
               /\ UNCHANGED users
          ELSE /\ users' = [users EXCEPT
                     ![r.user.id].email = IF r.email # "undef" THEN r.email ELSE @]
               /\ req' = Finish(p, "OK", "none")
    /\ UNCHANGED <<stores, ratings, nextRatingId, nextUserId, nextStoreId, nreq, stat, dash, tomb>>

\* PATCH /api/admin/stores/:id
StartUpdateStore(p) ==
    /\ CanStart(p)
    /\ \E s \in AccountStoreTargets :
          Begin(p, [NoReq EXCEPT !.op = "updateStore", !.pc = "verifyToken",
                       !.token = "u1", !.storeId = s, !.name = "n2"])

\* updateStore: prisma.store.findUnique
UpdateStoreFind(p) ==
    /\ req[p].pc = "us_find"
    /\ req' = IF req[p].storeId \notin DOMAIN stores
              THEN Finish(p, "NotFound", "none")
              ELSE Goto(p, "us_update")
    /\ UNCHANGED <<users, stores, ratings, nextRatingId, nextUserId, nextStoreId, nreq, stat, dash, tomb>>

\* updateStore: prisma.store.update of name, address and contactEmail
UpdateStoreUpdate(p) ==
    /\ req[p].pc = "us_update"
    /\ LET r == req[p] IN
       IF r.storeId \notin DOMAIN stores
       THEN /\ req' = Finish(p, "ServerError", "StoreMissing")
            /\ UNCHANGED stores
       ELSE /\ stores' = [stores EXCEPT ![r.storeId].name = r.name]
            /\ req' = Finish(p, "OK", "none")
    /\ UNCHANGED <<users, ratings, nextRatingId, nextUserId, nextStoreId, nreq, stat, dash, tomb>>

\* DELETE /api/admin/users/:id for an owner, old or new
StartDeleteUserAccount(p) ==
    /\ CanStart(p)
    /\ \E u \in AccountDeleteTargets :
          Begin(p, [NoReq EXCEPT !.op = "deleteUser", !.pc = "verifyToken",
                       !.token = "u1", !.userId = u])

\* DELETE /api/admin/stores/:id for a store, old or new
StartDeleteStoreAccount(p) ==
    /\ CanStart(p)
    /\ \E s \in AccountStoreTargets :
          Begin(p, [NoReq EXCEPT !.op = "deleteStore", !.pc = "verifyToken",
                       !.token = "u1", !.storeId = s])

\* ------------------------------------------------------------------- access
\* A request to a rating route by any caller.
StartUserRoute(p) ==
    /\ CanStart(p)
    /\ \E t \in AccessTokens, op \in RatingOps :
          Begin(p, [NoReq EXCEPT !.op = op, !.pc = "verifyToken", !.token = t,
                       !.storeId = "s1", !.ratingId = 1, !.value = 2])

\* A request to an admin route by any caller.
StartAdminRoute(p) ==
    /\ CanStart(p)
    /\ \E t \in AccessTokens, op \in AdminOps :
          Begin(p, [NoReq EXCEPT !.op = op, !.pc = "verifyToken", !.token = t,
                       !.storeId = "s1",
                       !.userId = IF op = "updateUser" THEN "u2" ELSE "u3",
                       !.email = "e9",
                       !.role = IF op = "updateUser" THEN "ADMIN" ELSE "undef",
                       !.name = "n2"])

\* GET /api/owner/dashboard, /store, /ratings by any caller.
StartOwnerRoute(p) ==
    /\ CanStart(p)
    /\ \E t \in AccessTokens, op \in OwnerOps :
          Begin(p, [NoReq EXCEPT !.op = op, !.pc = "verifyToken", !.token = t])

\* A request to a route guarded by isStoreOwner, by any caller.
StartStoreOwnerRoute(p) ==
    /\ CanStart(p)
    /\ \E t \in AccessTokens, s \in StoreIds :
          Begin(p, [NoReq EXCEPT !.op = "isStoreOwner", !.pc = "verifyToken",
                       !.token = t, !.storeId = s])

\* verifyOwner: prisma.user.findUnique select role
VerifyOwnerRole(p) ==
    /\ req[p].pc = "vo_role"
    /\ LET u == req[p].user.id IN
       req' = IF u \notin DOMAIN users \/ users[u].role # "OWNER"
              THEN Finish(p, "Forbidden", "none")
              ELSE [req EXCEPT ![p].pc = "vo_store",
                               ![p].rec = [id |-> u, role |-> users[u].role,
                                           email |-> users[u].email]]
    /\ UNCHANGED <<users, stores, ratings, nextRatingId, nextUserId, nextStoreId, nreq, stat, dash, tomb>>

\* Variant: verifyOwner without its check that the owner has a store.
VerifyOwnerStoreSkip(p) ==
    /\ req[p].pc = "vo_store"
    /\ req' = Goto(p, "ow_findStore")
    /\ UNCHANGED <<users, stores, ratings, nextRatingId, nextUserId, nextStoreId, nreq, stat, dash, tomb>>

\* verifyOwner: prisma.store.findUnique where ownerId
VerifyOwnerStore(p) ==
    /\ req[p].pc = "vo_store"
    /\ req' = IF StoresOwnedBy(stores, req[p].user.id) = {}
              THEN Finish(p, "Forbidden", "none")
              ELSE Goto(p, "ow_findStore")
    /\ UNCHANGED <<users, stores, ratings, nextRatingId, nextUserId, nextStoreId, nreq, stat, dash, tomb>>

\* getOwnerDashboard, getOwnerStore, getStoreRatings: prisma.store.findUnique
\* where ownerId; what follows only reads the store's ratings.
OwnerFindStore(p) ==
    /\ req[p].pc = "ow_findStore"
    /\ LET S == StoresOwnedBy(stores, req[p].user.id) IN
       req' = IF S = {}
              THEN Finish(p, "NotFound", "none")
              ELSE [Finish(p, "OK", "none") EXCEPT ![p].storeId = CHOOSE s \in S : TRUE]
    /\ UNCHANGED <<users, stores, ratings, nextRatingId, nextUserId, nextStoreId, nreq, stat, dash, tomb>>

\* Variant: isStoreOwner that lets only the owner through.
IsStoreOwnerOnly(user, store) == store.ownerId = user.id

\* isStoreOwner: the actor is an ADMIN or the owner of the store.
IsStoreOwner(user, store) == user.role = "ADMIN" \/ store.ownerId = user.id

\* isStoreOwner: prisma.store.findUnique, then the test; "Allowed" is next().
StoreOwnerFind(p) ==
    /\ req[p].pc = "iso_find"
    /\ LET r == req[p] IN
       req' = IF r.storeId \notin DOMAIN stores
              THEN Finish(p, "NotFound", "none")
              ELSE IF IsStoreOwner(r.user, stores[r.storeId])
              THEN Finish(p, "Allowed", "none")
              ELSE Finish(p, "Forbidden", "none")
    /\ UNCHANGED <<users, stores, ratings, nextRatingId, nextUserId, nextStoreId, nreq, stat, dash, tomb>>

\* --------------------------------------------------------------- statistics
\* Numbers with one decimal are kept in tenths: 40 stands for 4.0.

\* 2^n modulo m.
RECURSIVE Pow2Mod(_, _)
Pow2Mod(n, m) == IF n = 0 THEN 1 % m ELSE (2 * Pow2Mod(n - 1, m)) % m

\* The binary exponent of s/c for s >= c > 0: the e with 2^e <= s/c < 2^(e+1).
RECURSIVE Exponent(_, _)
Exponent(s, c) == IF s < 2 * c THEN 0 ELSE 1 + Exponent(s, 2 * c)

\* The sign of (the double s / c) - (the rational s/c), for s >= c > 0.  The
\* double is s * 2^k / c rounded to an integer (ties to even) and scaled back,
\* with k chosen to leave a 53-bit significand; the remainder of that
\* division tells the direction.
DivisionError(s, c) ==
    LET k == 52 - Exponent(s, c)
        r == ((s % c) * Pow2Mod(k, c)) % c
        r2 == ((s % (2 * c)) * Pow2Mod(k, 2 * c)) % (2 * c)
    IN IF r = 0 THEN 0
       ELSE IF 2 * r < c THEN -1
       ELSE IF 2 * r > c THEN 1
       ELSE IF r2 >= c THEN 1 ELSE -1

\* parseFloat((s / c).toFixed(1)) in tenths, for s >= c > 0.  toFixed takes
\* the n with n/10 nearest to the double, the larger n of two equally near.
\* When 10s/c is not half-way between two integers it is at least 1/(2c)
\* from half-way, far more than the error of the division, so the double
\* rounds as the rational does; when it is half-way the error of the division
\* decides.
ToFixed1(s, c) ==
    LET n == (10 * s) \div c
        t == (10 * s) % c
    IN IF 2 * t < c THEN n
       ELSE IF 2 * t > c THEN n + 1
       ELSE IF DivisionError(s, c) < 0 THEN n ELSE n + 1

\* totalRatings > 0 ? parseFloat((sumRatings / totalRatings).toFixed(1)) : 0
AverageRating(sum, total) == IF total > 0 THEN ToFixed1(sum, total) ELSE 0

\* The admin views: avgRating = totalRatings > 0 ? sumRatings / totalRatings
\* : 0, then parseFloat(avgRating.toFixed(1)).
AverageRatingAdmin(sum, total) ==
    LET isZero == ~(total > 0) IN IF isZero THEN 0 ELSE ToFixed1(sum, total)

\* Variant: a distribution without the bucket of score 1.
DistributionAddAboveOne(d, v) == IF v = 1 THEN d ELSE [d EXCEPT ![v] = @ + 1]

\* distribution[rating.value]++
DistributionAdd(d, v) == [d EXCEPT ![v] = @ + 1]

\* One more rating of allRatings, with value v, is counted by
\* allRatings.length, added by the reduce and put in its bucket by the forEach.
StatRead(v) ==
    /\ stat.total < MaxSample
    /\ stat' = [total |-> stat.total + 1,
                sum |-> stat.sum + v,
                distribution |-> DistributionAdd(stat.distribution, v)]
    /\ UNCHANGED <<users, stores, ratings, nextRatingId, nextUserId, nextStoreId,
                   req, nreq, tomb, dash>>

\* -------------------------------------------------------------------- trend
Months ==
    <<"January", "February", "March", "April", "May", "June",
      "July", "August", "September", "October", "November", "December">>

\* months.indexOf(name)
MonthIndexOf(name) == (CHOOSE i \in 1..12 : Months[i] = name) - 1

IsLeap(y) == (y % 4 = 0 /\ y % 100 # 0) \/ y % 400 = 0

DaysInMonth(y, m) ==
    IF m = 1 THEN (IF IsLeap(y) THEN 29 ELSE 28)
    ELSE IF m \in {3, 5, 8, 10} THEN 30 ELSE 31

\* a <= b on dates
DateLeq(a, b) ==
    \/ a.year < b.year
    \/ a.year = b.year /\ a.month < b.month
    \/ a.year = b.year /\ a.month = b.month /\ a.day <= b.day

\* Date.prototype.setMonth(m) on date d: the month may lie outside 0..11 and
\* moves the year; a day past the end of the month runs on into the next.
SetMonth(d, m) ==
    LET y1 == d.year + (m \div 12)
        m1 == m % 12
        dim == DaysInMonth(y1, m1)
    IN IF d.day <= dim THEN [year |-> y1, month |-> m1, day |-> d.day]
       ELSE IF m1 = 11 THEN [year |-> y1 + 1, month |-> 0, day |-> d.day - dim]
       ELSE [year |-> y1, month |-> m1 + 1, day |-> d.day - dim]

\* sixMonthsAgo.setMonth(today.getMonth() - 6)
SixMonthsAgo(today) == SetMonth(today, today.month - 6)

\* The forEach that groups: monthlyRatings after the ratings of all, as the
\* list of its values in the order their keys were added.
RECURSIVE MonthlyRatings(_, _)
MonthlyRatings(all, since) ==
    IF all = <<>> THEN <<>>
    ELSE LET n == Len(all)
             before == MonthlyRatings(SubSeq(all, 1, n - 1), since)
             rating == all[n]
             date == rating.createdAt
             name == Months[date.month + 1]
             hit == {i \in 1..Len(before) :
                        before[i].month = name /\ before[i].year = date.year}
         IN IF ~DateLeq(since, date) THEN before
            ELSE IF hit = {}
            THEN Append(before, [month |-> name, year |-> date.year,
                                 total |-> rating.value, count |-> 1])
            ELSE [i \in 1..Len(before) |->
                    IF i \in hit
                    THEN [before[i] EXCEPT !.total = @ + rating.value,
                                           !.count = @ + 1]
                    ELSE before[i]]

\* The comparator of the sort: negative when a comes first.
TrendCompare(a, b) ==
    IF a.year # b.year THEN a.year - b.year
    ELSE MonthIndexOf(a.month) - MonthIndexOf(b.month)

\* Array.prototype.sort with TrendCompare (a stable sort).
RECURSIVE TrendSort(_)
TrendSort(q) ==
    IF q = <<>> THEN <<>>
    ELSE LET n == Len(q)
             sorted == TrendSort(SubSeq(q, 1, n - 1))
             x == q[n]
             k == Cardinality({i \in 1..Len(sorted) :
                                  TrendCompare(sorted[i], x) <= 0})
         IN SubSeq(sorted, 1, k) \o <<x>> \o SubSeq(sorted, k + 1, Len(sorted))

\* ratingTrend: the monthly averages, sorted.
RatingTrend(all, today) ==
    LET m == MonthlyRatings(all, SixMonthsAgo(today)) IN
    TrendSort([i \in 1..Len(m) |->
                 [month |-> m[i].month, year |-> m[i].year,
                  average |-> ToFixed1(m[i].total, m[i].count),
                  count |-> m[i].count]])

\* getOwnerDashboard takes new Date().
TrendToday ==
    /\ dash.today = NoDate
    /\ \E t \in Todays : dash' = [dash EXCEPT !.today = t]
    /\ UNCHANGED <<users, stores, ratings, nextRatingId, nextUserId, nextStoreId,
                   req, nreq, tomb, stat>>

\* One more rating, created on or before today, is among the allRatings that
\* prisma.rating.findMany returns.
TrendRead ==
    /\ dash.today # NoDate
    /\ Len(dash.allRatings) < MaxTrendRatings
    /\ \E v \in TrendValues, c \in CreatedAts :
          /\ DateLeq(c, dash.today)
          /\ dash' = [dash EXCEPT !.allRatings =
                         Append(@, [value |-> v, createdAt |-> c])]
    /\ UNCHANGED <<users, stores, ratings, nextRatingId, nextUserId, nextStoreId,
                   req, nreq, tomb, stat>>

\* ------------------------------------------------------------ specification
\* The seeded database: an administrator, the owner of store s1, two plain
\* users, and one rating of s1 by u3.
SeedRating == [userId |-> "u3", storeId |-> "s1", value |-> 1, comment |-> "undef"]

Init ==
    /\ users = [u \in UserIds |->
                  [role |-> CASE u = "u1" -> "ADMIN"
                              [] u = "u2" -> "OWNER"
                              [] OTHER -> "USER",
                   email |-> CASE u = "u1" -> "e1"
                               [] u = "u2" -> "e2"
                               [] u = "u3" -> "e3"
                               [] OTHER -> "e4",
                   password |-> "h0"]]
    /\ stores = [s \in {"s1"} |-> [ownerId |-> "u2", name |-> "n1"]]
    /\ ratings = [r \in {1} |-> SeedRating]
    /\ nextRatingId = 2
    /\ nextUserId = 1
    /\ nextStoreId = 1
    /\ req = [p \in Procs |-> NoReq]
    /\ nreq = 0
    /\ tomb = [r \in {} |-> [userId |-> "none", storeId |-> "none"]]
    /\ stat = [total |-> 0, sum |-> 0, distribution |-> [v \in Scores |-> 0]]
    /\ dash = [today |-> NoDate, allRatings |-> <<>>]

Next ==
    \E p \in Procs :
        \/ StartCreateRating(p)
        \/ StartUpdateRating(p)
        \/ StartDeleteRating(p)
        \/ VerifyToken(p)
        \/ CreateRatingFindStore(p)
        \/ CreateRatingFindRating(p)
        \/ CreateRatingCreate(p)
        \/ CanModifyRating(p)
        \/ UpdateRatingUpdate(p)
        \/ DeleteRatingDelete(p)
        \/ StartDeleteStore(p)
        \/ StartDeleteUser(p)
        \/ StartUpdateUser(p)
        \/ DeleteStoreFind(p)
        \/ DeleteStoreDeleteRatings(p)
        \/ DeleteStoreDelete(p)
        \/ DeleteStoreUpdateOwner(p)
        \/ DeleteUserFind(p)
        \/ DeleteUserDeleteRatings(p)
        \/ DeleteUserDelete(p)
        \/ UpdateUserFind(p)
        \/ UpdateUserUpdate(p)

Spec == Init /\ [][Next]_vars

\* The account and store management operations, interleaved.
NextAccounts ==
    \E p \in Procs :
        \/ StartRegister(p)
        \/ StartCreateUser(p)
        \/ StartCreateStoreWithOwner(p)
        \/ StartUpdateUserEmail(p)
        \/ StartUpdateUserProfile(p)
        \/ StartUpdateStore(p)
        \/ StartDeleteUserAccount(p)
        \/ StartDeleteStoreAccount(p)
        \/ VerifyToken(p)
        \/ RegisterFindEmail(p)
        \/ RegisterCreate(p)
        \/ CreateUserFindEmail(p)
        \/ CreateUserCreate(p)
        \/ CreateStoreFindEmail(p)
        \/ CreateStoreTxUser(p)
        \/ CreateStoreTxStore(p)
        \/ CreateStoreTxAbort(p)
        \/ UpdateUserFind(p)
        \/ UpdateUserFindEmail(p)
        \/ UpdateUserUpdate(p)
        \/ UpdateProfileFindEmail(p)
        \/ UpdateProfileUpdate(p)
        \/ UpdateStoreFind(p)
        \/ UpdateStoreUpdate(p)
        \/ DeleteStoreFind(p)
        \/ DeleteStoreDeleteRatings(p)
        \/ DeleteStoreDelete(p)
        \/ DeleteStoreUpdateOwner(p)
        \/ DeleteUserFind(p)
        \/ DeleteUserDeleteRatings(p)
        \/ DeleteUserDelete(p)

SpecAccounts == Init /\ [][NextAccounts]_vars

\* Every route group called by every kind of caller.
NextAccess ==
    \E p \in Procs :
        \/ StartUserRoute(p)
        \/ StartAdminRoute(p)
        \/ StartOwnerRoute(p)
        \/ StartStoreOwnerRoute(p)
        \/ VerifyToken(p)
        \/ CreateRatingFindStore(p)
        \/ CreateRatingFindRating(p)
        \/ CreateRatingCreate(p)
        \/ CanModifyRating(p)
        \/ UpdateRatingUpdate(p)
        \/ DeleteRatingDelete(p)
        \/ CreateUserFindEmail(p)
        \/ CreateUserCreate(p)
        \/ CreateStoreFindEmail(p)
        \/ CreateStoreTxUser(p)
        \/ CreateStoreTxStore(p)
        \/ CreateStoreTxAbort(p)
        \/ UpdateUserFind(p)
        \/ UpdateUserFindEmail(p)
        \/ UpdateUserUpdate(p)
        \/ UpdateStoreFind(p)
        \/ UpdateStoreUpdate(p)
        \/ DeleteStoreFind(p)
        \/ DeleteStoreDeleteRatings(p)
        \/ DeleteStoreDelete(p)
        \/ DeleteStoreUpdateOwner(p)
        \/ DeleteUserFind(p)
        \/ DeleteUserDeleteRatings(p)
        \/ DeleteUserDelete(p)
        \/ VerifyOwnerRole(p)
        \/ VerifyOwnerStore(p)
        \/ OwnerFindStore(p)
        \/ StoreOwnerFind(p)

SpecAccess == Init /\ [][NextAccess]_vars

\* Every operation that writes a user, a store or a rating.
NextRoles ==
    \E p \in Procs :
        \/ StartUserRoute(p)
        \/ StartAdminRoute(p)
        \/ StartRegister(p)
        \/ StartUpdateUserProfile(p)
        \/ StartUpdatePassword(p)
        \/ VerifyToken(p)
        \/ CreateRatingFindStore(p)
        \/ CreateRatingFindRating(p)
        \/ CreateRatingCreate(p)
        \/ CanModifyRating(p)
        \/ UpdateRatingUpdate(p)
        \/ DeleteRatingDelete(p)
        \/ RegisterFindEmail(p)
        \/ RegisterCreate(p)
        \/ CreateUserFindEmail(p)
        \/ CreateUserCreate(p)
        \/ CreateStoreFindEmail(p)
        \/ CreateStoreTxUser(p)
        \/ CreateStoreTxStore(p)
        \/ CreateStoreTxAbort(p)
        \/ UpdateUserFind(p)
        \/ UpdateUserFindEmail(p)
        \/ UpdateUserUpdate(p)
        \/ UpdateProfileFindEmail(p)
        \/ UpdateProfileUpdate(p)
        \/ UpdatePasswordFind(p)
        \/ UpdatePasswordUpdate(p)
        \/ UpdateStoreFind(p)
        \/ UpdateStoreUpdate(p)
        \/ DeleteStoreFind(p)
        \/ DeleteStoreDeleteRatings(p)
        \/ DeleteStoreDelete(p)
        \/ DeleteStoreUpdateOwner(p)
        \/ DeleteUserFind(p)
        \/ DeleteUserDeleteRatings(p)
        \/ DeleteUserDelete(p)

SpecRoles == Init /\ [][NextRoles]_vars

\* The statistics of a store, over every collection of ratings.
NextSummary == \E v \in Scores : StatRead(v)

SpecSummary == Init /\ [][NextSummary]_vars

\* The monthly trend, over every list of ratings and day.
NextTrend == TrendToday \/ TrendRead

SpecTrend == Init /\ [][NextTrend]_vars

\* ------------------------------------------------------------------ claims
Done(p) == req[p].pc = "done"

\* Request p takes a step of its own from program point pc.
StepFrom(p, pc) == req[p].pc = pc /\ req'[p].pc # pc

\* C1: in every reachable state there is at most one rating for each
\* (userId, storeId) pair.
C1_OneRatingPerPair ==
    \A a, b \in DOMAIN ratings :
        (ratings[a].userId = ratings[b].userId
            /\ ratings[a].storeId = ratings[b].storeId) => a = b

\* A createRating that passed the existing-rating check was stopped by the
\* unique constraint while two ratings are stored.
C1_Witness ==
    \E p \in Procs :
        /\ Done(p) /\ req[p].op = "createRating" /\ req[p].err = "Duplicate"
        /\ Cardinality(DOMAIN ratings) = 2

\* C2: when two createRating calls for the same (user, store) pair both pass
\* the existing-rating check before either writes, exactly one succeeds and
\* the other ends with Conflict.
C2_RaceEndsInConflict ==
    \A p, q \in Procs :
        (/\ p # q /\ Done(p) /\ Done(q)
         /\ req[p].op = "createRating" /\ req[q].op = "createRating"
         /\ req[p].raced /\ req[q].raced
         /\ req[p].user.id = req[q].user.id /\ req[p].storeId = req[q].storeId)
        => {req[p].outcome, req[q].outcome} = {"Created", "Conflict"}

\* C3: a createRating(u, s) that runs while a rating of (u, s) exists, and
\* keeps existing, changes no rating and ends with Conflict.
C3_SecondCreateConflicts ==
    [][\A p \in Procs :
          (/\ req[p].op = "createRating" /\ req[p].sawExisting
           /\ req'[p].op = "createRating" /\ req'[p].sawExisting
           /\ req'[p].pc # req[p].pc)
          => /\ ratings' = ratings
             /\ req'[p].pc = "done" => req'[p].outcome = "Conflict"]_vars

\* A second createRating with another value ended with Conflict.
C3_Witness ==
    \E p \in Procs :
        /\ Done(p) /\ req[p].op = "createRating" /\ req[p].sawExisting
        /\ req[p].outcome = "Conflict"
        /\ \E r \in RatingsOf(ratings, req[p].user.id, req[p].storeId) :
              ratings[r].value # req[p].value

\* C4: updateRating and deleteRating by a USER who is not the rating's author
\* end with Forbidden and change no rating; by the author (the rating being
\* there when the write runs) they succeed.  No request reaches the write
\* for a rating it did not find to be its own.
C4_OnlyAuthorModifies ==
    [][\A p \in Procs :
          /\ (StepFrom(p, "canModifyRating") /\ req[p].ratingId \in DOMAIN ratings)
             => IF ratings[req[p].ratingId].userId # req[p].user.id
                THEN /\ req'[p].pc = "done" /\ req'[p].outcome = "Forbidden"
                     /\ ratings' = ratings
                ELSE req'[p].pc \in {"ur_update", "dr_delete"}
          /\ req[p].pc \in {"ur_update", "dr_delete"}
             => /\ req[p].user.role = "USER"
                /\ req[p].rec.id = req[p].user.id
                /\ req[p].ratingId \in DOMAIN ratings
                      => ratings[req[p].ratingId].userId = req[p].user.id
          /\ (/\ \/ StepFrom(p, "ur_update")
                 \/ StepFrom(p, "dr_delete")
              /\ req[p].ratingId \in DOMAIN ratings)
             => /\ req'[p].pc = "done" /\ req'[p].outcome = "OK"
                /\ req[p].op = "deleteRating"
                      => req[p].ratingId \notin DOMAIN ratings']_vars

\* One USER was refused on another user's rating and the author's own
\* request went through.
C4_Witness ==
    \E p, q \in Procs :
        /\ Done(p) /\ req[p].op \in {"updateRating", "deleteRating"}
        /\ req[p].outcome = "Forbidden" /\ req[p].user.role = "USER"
        /\ req[p].rec.id \notin {"none", req[p].user.id}
        /\ Done(q) /\ req[q].op \in {"updateRating", "deleteRating"}
        /\ req[q].outcome = "OK" /\ req[q].rec.id = req[q].user.id

\* C5: createRating for a store that does not exist, at its store check or
\* at its write, ends with NotFound and creates no rating.
C5_MissingStoreIsNotFound ==
    [][\A p \in Procs :
          (/\ req[p].op = "createRating"
           /\ StepFrom(p, "cr_findStore") \/ StepFrom(p, "cr_create")
           /\ req[p].storeId \notin DOMAIN stores)
          => /\ req'[p].pc = "done" /\ req'[p].outcome = "NotFound"
             /\ ratings' = ratings]_vars

\* C6: updateRating or deleteRating on a rating id that does not exist, at
\* the ownership check or at the write, ends with NotFound.
C6_MissingRatingIsNotFound ==
    [][\A p \in Procs :
          (/\ \/ StepFrom(p, "canModifyRating")
              \/ StepFrom(p, "ur_update")
              \/ StepFrom(p, "dr_delete")
           /\ req[p].ratingId \notin DOMAIN ratings)
          => req'[p].pc = "done" /\ req'[p].outcome = "NotFound"]_vars

\* C7: a successful deleteRating leaves its (user, store) pair without any
\* rating, a deleted rating is never readable again, and a createRating that
\* finds the pair unrated goes on to its write and, the store and user being
\* there, creates a rating under a fresh id.
C7_DeleteReturnsToAbsent ==
    [][/\ \A r \in DOMAIN tomb : r \notin DOMAIN ratings
       /\ \A p \in Procs :
          /\ (StepFrom(p, "dr_delete") /\ req'[p].outcome = "OK")
             => /\ req[p].ratingId \in DOMAIN ratings
                /\ req[p].ratingId \notin DOMAIN ratings'
                /\ RatingsOf(ratings', ratings[req[p].ratingId].userId,
                             ratings[req[p].ratingId].storeId) = {}
          /\ (/\ StepFrom(p, "cr_findRating")
              /\ RatingsOf(ratings, req[p].user.id, req[p].storeId) = {})
             => req'[p].pc = "cr_create"
          /\ (/\ StepFrom(p, "cr_create")
              /\ RatingsOf(ratings, req[p].user.id, req[p].storeId) = {}
              /\ req[p].storeId \in DOMAIN stores
              /\ req[p].user.id \in DOMAIN users)
             => /\ req'[p].outcome = "Created"
                /\ req'[p].ratingId \notin DOMAIN ratings \cup DOMAIN tomb
                /\ RatingsOf(ratings', req[p].user.id, req[p].storeId)
                      = {req'[p].ratingId}]_vars

\* A rating was deleted by deleteRating and its pair was rated again.
C7_Witness ==
    \E p, q \in Procs :
        /\ Done(q) /\ req[q].op = "deleteRating" /\ req[q].outcome = "OK"
        /\ req[q].ratingId \in DOMAIN tomb
        /\ Done(p) /\ req[p].op = "createRating" /\ req[p].outcome = "Created"
        /\ req[p].ratingId \in DOMAIN ratings
        /\ req[p].user.id = tomb[req[q].ratingId].userId
        /\ req[p].storeId = tomb[req[q].ratingId].storeId

C9_DeleteStoreSuccess ==
    [][\A p \in Procs :
          (/\ req[p].op = "deleteStore" /\ req[p].pc # "done"
           /\ req'[p].pc = "done" /\ req'[p].outcome = "OK")
          => /\ RatingsOfStore(ratings', req[p].storeId) = {}
             /\ req[p].storeId \notin DOMAIN stores'
             /\ req[p].rec.role # "ADMIN"
                   => /\ req[p].rec.id \in DOMAIN users'
                      /\ users'[req[p].rec.id].role = "USER"]_vars

\* deleteStore succeeded on a store that had a rating and a non-admin owner.
C9_Witness ==
    \E p \in Procs :
        /\ Done(p) /\ req[p].op = "deleteStore" /\ req[p].outcome = "OK"
        /\ req[p].rec.role = "OWNER"
        /\ \E r \in DOMAIN tomb : tomb[r].storeId = req[p].storeId
        /\ users[req[p].rec.id].role = "USER"

\* C10: deleteStore never sets to USER the role of an owner whose role is
\* ADMIN.
C10_AdminOwnerKeepsRole ==
    [][\A p \in Procs : \A u \in DOMAIN users :
          (/\ req[p].op = "deleteStore" /\ req'[p].pc # req[p].pc
           /\ users[u].role = "ADMIN")
          => u \in DOMAIN users' /\ users'[u].role = "ADMIN"]_vars

\* C11: deleteUser on a user who owns a store ends with Conflict at its
\* lookup and writes nothing, and never reaches its deletes; on a user without
\* a store it goes on, its user.delete succeeds when no rating of the user is
\* left, and when it answers success the user and every rating the user
\* authored are gone.
C11_DeleteUserGuard ==
    [][\A p \in Procs :
          /\ (StepFrom(p, "du_find") /\ req[p].userId \in DOMAIN users)
             => IF StoresOwnedBy(stores, req[p].userId) # {}
                THEN /\ req'[p].pc = "done" /\ req'[p].outcome = "Conflict"
                     /\ users' = users /\ stores' = stores /\ ratings' = ratings
                ELSE req'[p].pc = "du_delRatings"
          /\ req[p].pc \in {"du_delRatings", "du_delUser"}
             => StoresOwnedBy(stores, req[p].userId) = {}
          /\ (/\ StepFrom(p, "du_delUser")
              /\ req[p].userId \in DOMAIN users
              /\ RatingsOfUser(ratings, req[p].userId) = {})
             => req'[p].outcome = "OK"
          /\ (/\ req[p].op = "deleteUser" /\ req[p].pc # "done"
              /\ req'[p].pc = "done" /\ req'[p].outcome = "OK")
             => /\ req[p].userId \notin DOMAIN users'
                /\ RatingsOfUser(ratings', req[p].userId) = {}]_vars

\* The owner of a store was refused and kept, and a user who had rated was
\* deleted with the rating.
C11_Witness ==
    \E p, q \in Procs :
        /\ Done(p) /\ req[p].op = "deleteUser" /\ req[p].outcome = "Conflict"
        /\ req[p].userId \in DOMAIN users
        /\ StoresOwnedBy(stores, req[p].userId) # {}
        /\ Done(q) /\ req[q].op = "deleteUser" /\ req[q].outcome = "OK"
        /\ req[q].userId \notin DOMAIN users
        /\ \E r \in DOMAIN tomb : tomb[r].userId = req[q].userId

\* C12: createStoreWithOwner whose owner email belongs to an existing user
\* when it checks ends with Conflict, and the sets of users and stores stay
\* as they were.
C12_ExistingEmailConflicts ==
    [][\A p \in Procs :
          (StepFrom(p, "cs_findEmail") /\ UsersWithEmail(req[p].email) # {})
          => /\ req'[p].pc = "done" /\ req'[p].outcome = "Conflict"
             /\ users' = users /\ stores' = stores]_vars

\* A createStoreWithOwner with the email of u3 was refused and the tables
\* hold the seeded rows only.
C12_Witness ==
    \E p \in Procs :
        /\ Done(p) /\ req[p].op = "createStoreWithOwner"
        /\ req[p].outcome = "Conflict" /\ req[p].email = "e3"
        /\ DOMAIN users = UserIds /\ DOMAIN stores = {"s1"}

\* C13: createStoreWithOwner is atomic.  While it runs, its new owner is in
\* no table and owns no store; each of its steps changes the users exactly
\* when it changes the stores; when it answers success exactly one user and
\* one store were added, the user has role OWNER and owns exactly that store;
\* when it answers a failure neither row exists.
C13_StoreWithOwnerAtomic ==
    [][\A p \in Procs :
          req[p].op = "createStoreWithOwner" =>
            /\ req[p].pc # "done"
               => /\ req[p].rec.id \notin DOMAIN users
                  /\ \A s \in DOMAIN stores : stores[s].ownerId # req[p].rec.id
            /\ req'[p].pc # req[p].pc
               => /\ (users' = users) <=> (stores' = stores)
                  /\ (req'[p].pc = "done" /\ req'[p].outcome = "Created")
                     => /\ req'[p].userId \notin DOMAIN users
                        /\ req'[p].storeId \notin DOMAIN stores
                        /\ users' = Insert(users, req'[p].userId,
                              [role |-> "OWNER", email |-> req[p].email,
                               password |-> "h0"])
                        /\ DOMAIN stores' = DOMAIN stores \cup {req'[p].storeId}
                        /\ \A s \in DOMAIN stores : stores'[s] = stores[s]
                        /\ {s \in DOMAIN stores' :
                               stores'[s].ownerId = req'[p].userId}
                             = {req'[p].storeId}
                  /\ (req'[p].pc = "done" /\ req'[p].outcome # "Created")
                     => /\ users' = users /\ stores' = stores
                        /\ req'[p].rec.id \notin DOMAIN users'
                        /\ \A s \in DOMAIN stores' :
                              stores'[s].ownerId # req'[p].rec.id]_vars

\* One createStoreWithOwner failed inside its transaction after its
\* tx.user.create and left nothing; another one committed its owner and store.
C13_Witness ==
    \E p, q \in Procs :
        /\ Done(p) /\ req[p].op = "createStoreWithOwner"
        /\ req[p].err = "TxFailed" /\ req[p].rec.id \notin DOMAIN users
        /\ Done(q) /\ req[q].op = "createStoreWithOwner"
        /\ req[q].outcome = "Created"
        /\ req[q].userId \in DOMAIN users /\ req[q].storeId \in DOMAIN stores
        /\ Cardinality(DOMAIN users) = 5 /\ Cardinality(DOMAIN stores) = 2

\* C14: when two account-creating operations for the same email both pass
\* the email-exists check before either writes, exactly one succeeds and the
\* other ends with Conflict.
C14_EmailRaceEndsInConflict ==
    \A p, q \in Procs :
        (/\ p # q /\ Done(p) /\ Done(q)
         /\ req[p].op \in AccountCreateOps /\ req[q].op \in AccountCreateOps
         /\ req[p].raced /\ req[q].raced
         /\ req[p].email = req[q].email
         /\ req[p].err # "TxFailed" /\ req[q].err # "TxFailed")
        => {req[p].outcome, req[q].outcome} = {"Created", "Conflict"}

\* C15: no two users have the same email, before and after every step; a
\* step of updateUser or updateUserProfile that checks or writes an email
\* held by a user other than its target ends the request with a refusal and
\* leaves the users as they were.
C15_EmailUnique ==
    [][/\ \A a, b \in DOMAIN users : users[a].email = users[b].email => a = b
       /\ \A a, b \in DOMAIN users' : users'[a].email = users'[b].email => a = b
       /\ \A p \in Procs :
            (/\ req[p].pc \in {"uu_findEmail", "uu_update",
                                "up_findEmail", "up_update"}
             /\ req'[p].pc # req[p].pc
             /\ req[p].email # "undef"
             /\ UsersWithEmail(req[p].email) \ {req[p].userId} # {})
            => /\ users' = users
               /\ req'[p].pc = "done"
               /\ req'[p].outcome \in {"Conflict", "ServerError"}]_vars

\* An update passed its email check, another request then took the email,
\* and the update was refused by the unique constraint, its target keeping
\* the email it had.
C15_Witness ==
    \E p \in Procs :
        /\ Done(p) /\ req[p].op \in {"updateUser", "updateUserProfile"}
        /\ req[p].err = "Duplicate" /\ req[p].email = "e9"
        /\ users[req[p].userId].email = "e4"
        /\ UsersWithEmail("e9") # {}

\* C16: no two stores share an ownerId and the owner of every store exists.
C16_OneStorePerOwner ==
    /\ \A a, b \in DOMAIN stores :
          stores[a].ownerId = stores[b].ownerId => a = b
    /\ \A s \in DOMAIN stores : stores[s].ownerId \in DOMAIN users

\* A store created with its owner is there and a deleteUser of that owner was
\* refused.
C16_Witness ==
    \E p \in Procs :
        /\ Done(p) /\ req[p].op = "deleteUser" /\ req[p].outcome = "Conflict"
        /\ req[p].userId = "u5"
        /\ \E s \in DOMAIN stores \ {"s1"} : stores[s].ownerId = "u5"

\* The tables are left as they were.
NoWrite == users' = users /\ stores' = stores /\ ratings' = ratings

\* C17: an admin operation runs its handler, and writes, only for an actor
\* authenticated with role ADMIN; at the entry of an admin route an actor
\* with role USER or OWNER gets Forbidden and a caller who is not
\* authenticated (no token, a token that does not verify, a token of no
\* user) gets Unauthenticated, and neither changes a user, store or rating.
C17_AdminOnly ==
    [][\A p \in Procs :
          req[p].op \in AdminOps =>
            /\ (req'[p].pc # req[p].pc /\ ~NoWrite) => req[p].user.role = "ADMIN"
            /\ req[p].pc \notin {"idle", "verifyToken", "done"}
               => req[p].user.role = "ADMIN"
            /\ StepFrom(p, "verifyToken")
               => IF req[p].token \notin DOMAIN users
                  THEN /\ req'[p].pc = "done"
                       /\ req'[p].outcome = "Unauthenticated"
                       /\ NoWrite
                  ELSE IF users[req[p].token].role # "ADMIN"
                  THEN /\ req'[p].pc = "done"
                       /\ req'[p].outcome = "Forbidden"
                       /\ NoWrite
                  ELSE req'[p].pc # "done"]_vars

\* C18: the owner routes are served only to an actor whose role the owner
\* check read as OWNER and who owns a store when served; an OWNER without a
\* store is denied with Forbidden by the owner check, and with NotFound by
\* the handler's own lookup when the store was deleted after the owner
\* check; an owner request never ends with a server error and writes nothing.
C18_OwnerRoutesDenyWithoutStore ==
    [][\A p \in Procs :
          (req[p].op \in OwnerOps /\ req'[p].pc # req[p].pc) =>
            /\ NoWrite
            /\ req'[p].outcome # "ServerError"
            /\ (req[p].pc = "vo_role" /\ req'[p].pc # "done")
               => users[req[p].user.id].role = "OWNER"
            /\ (req[p].pc = "vo_store"
                  /\ StoresOwnedBy(stores, req[p].user.id) = {})
               => req'[p].pc = "done" /\ req'[p].outcome = "Forbidden"
            /\ (req[p].pc = "ow_findStore"
                  /\ StoresOwnedBy(stores, req[p].user.id) = {})
               => req'[p].pc = "done" /\ req'[p].outcome = "NotFound"
            /\ (req'[p].pc = "done" /\ req'[p].outcome = "OK")
               => /\ req[p].pc = "ow_findStore"
                  /\ req[p].rec.role = "OWNER"
                  /\ StoresOwnedBy(stores, req[p].user.id) # {}]_vars

\* C18 as it was stated: an owner request that finds its actor without a
\* store, at the owner check or at the handler's own lookup, ends with
\* Forbidden.
C18_AlwaysForbidden ==
    [][\A p \in Procs :
          (/\ req[p].op \in OwnerOps
           /\ req[p].pc \in {"vo_store", "ow_findStore"}
           /\ req'[p].pc # req[p].pc
           /\ StoresOwnedBy(stores, req[p].user.id) = {})
          => req'[p].pc = "done" /\ req'[p].outcome = "Forbidden"]_vars

\* The store was deleted between the owner check and the handler's lookup:
\* the owner, still OWNER, was answered NotFound.
C18_Witness ==
    \E p \in Procs :
        /\ Done(p) /\ req[p].op \in OwnerOps /\ req[p].outcome = "NotFound"
        /\ req[p].rec.role = "OWNER"
        /\ StoresOwnedBy(stores, req[p].user.id) = {}

\* C19: role checks are exact.  On a rating route an authenticated actor
\* whose role is not USER, on an admin route one whose role is not ADMIN,
\* and on an owner route one whose role is not OWNER, is answered Forbidden
\* by the role check and the request writes nothing.
C19_ExactRoleMatch ==
    [][\A p \in Procs :
          /\ (/\ StepFrom(p, "verifyToken")
              /\ req[p].token \in DOMAIN users
              /\ \/ req[p].op \in RatingOps /\ users[req[p].token].role # "USER"
                 \/ req[p].op \in AdminOps /\ users[req[p].token].role # "ADMIN")
             => req'[p].pc = "done" /\ req'[p].outcome = "Forbidden" /\ NoWrite
          /\ (/\ StepFrom(p, "vo_role")
              /\ req[p].user.id \in DOMAIN users
              /\ users[req[p].user.id].role # "OWNER")
             => req'[p].pc = "done" /\ req'[p].outcome = "Forbidden" /\ NoWrite
          /\ (req'[p].pc = "done" /\ req[p].pc # "done"
                /\ req'[p].outcome \in {"OK", "Created"})
             => \/ req[p].op \in RatingOps /\ req[p].user.role = "USER"
                \/ req[p].op \in AdminOps /\ req[p].user.role = "ADMIN"
                \/ req[p].op \in OwnerOps /\ req[p].rec.role = "OWNER"]_vars

\* The ADMIN was denied on a rating route and on an owner route.
C19_Witness ==
    \E p, q \in Procs :
        /\ Done(p) /\ req[p].op \in RatingOps /\ req[p].user.role = "ADMIN"
        /\ req[p].outcome = "Forbidden"
        /\ Done(q) /\ req[q].op \in OwnerOps /\ req[q].user.role = "ADMIN"
        /\ req[q].outcome = "Forbidden"

\* C20: isStoreOwner answers NotFound when the store is missing, whoever
\* asks; otherwise it lets the request through exactly when the actor's role
\* is ADMIN or the actor's id is the store's ownerId, and answers Forbidden
\* to every other authenticated actor.
C20_StoreOwnerOrAdmin ==
    [][\A p \in Procs :
          StepFrom(p, "iso_find") =>
            /\ req'[p].pc = "done"
            /\ req'[p].outcome =
                 IF req[p].storeId \notin DOMAIN stores THEN "NotFound"
                 ELSE IF \/ req[p].user.role = "ADMIN"
                         \/ stores[req[p].storeId].ownerId = req[p].user.id
                      THEN "Allowed"
                 ELSE "Forbidden"]_vars

\* The ADMIN, who owns no store, was let through and a USER was refused.
C20_Witness ==
    \E p, q \in Procs :
        /\ Done(p) /\ req[p].op = "isStoreOwner" /\ req[p].outcome = "Allowed"
        /\ req[p].user.role = "ADMIN" /\ StoresOwnedBy(stores, req[p].user.id) = {}
        /\ Done(q) /\ req[q].op = "isStoreOwner" /\ req[q].outcome = "Forbidden"
        /\ req[q].user.role = "USER" /\ req[q].storeId \in DOMAIN stores

\* C21: the role of a user changes only in the write of an admin updateUser
\* that carries a role, to that role, or in deleteStore's demotion of the
\* owner it read, to USER; a user created by register has role USER; no other
\* step (updateUserProfile, updatePassword, the rating operations,
\* updateStore) changes any role.
C21_RoleChangesOnlyByAdmin ==
    [][/\ \A u \in DOMAIN users \cap DOMAIN users' :
            users'[u].role # users[u].role
            => \E p \in Procs :
                  \/ /\ req[p].op = "updateUser" /\ StepFrom(p, "uu_update")
                     /\ req[p].userId = u /\ req[p].role # "undef"
                     /\ users'[u].role = req[p].role
                     /\ req[p].user.role = "ADMIN"
                  \/ /\ req[p].op = "deleteStore" /\ StepFrom(p, "ds_updRole")
                     /\ req[p].rec.id = u /\ users'[u].role = "USER"
       /\ \A p \in Procs :
            (req[p].op = "register" /\ StepFrom(p, "rg_create"))
            => \A u \in DOMAIN users' \ DOMAIN users : users'[u].role = "USER"
       /\ \A p \in Procs :
            (/\ req[p].op \in RatingOps \cup {"updateUserProfile",
                                 "updatePassword", "updateStore", "register"}
             /\ req'[p].pc # req[p].pc)
            => \A u \in DOMAIN users \cap DOMAIN users' :
                  users'[u].role = users[u].role]_vars

\* A user changed email and password and another registered, and every
\* seeded user still has the role it started with.
C21_Witness ==
    \E p, q \in Procs :
        /\ Done(p) /\ req[p].op = "updateUserProfile" /\ req[p].outcome = "OK"
        /\ users[req[p].userId].email = "e9"
        /\ users[req[p].userId].role = "USER"
        /\ Done(q) /\ req[q].op = "updatePassword" /\ req[q].outcome = "OK"
        /\ users[req[q].userId].password = "h1"
        /\ users["u1"].role = "ADMIN" /\ users["u2"].role = "OWNER"

\* Sum of f over the scores.
SumOver(f) == f[1] + f[2] + f[3] + f[4] + f[5]

\* C22: the summary has count equal to the number of ratings, a distribution
\* with exactly the buckets 1..5, each holding the number of ratings of its
\* score, and its buckets sum to count.
C22_DistributionSumsToCount ==
    /\ DOMAIN stat.distribution = 1..5
    /\ \A v \in 1..5 : stat.distribution[v] \in 0..stat.total
    /\ SumOver(stat.distribution) = stat.total
    /\ SumOver([v \in 1..5 |-> v * stat.distribution[v]]) = stat.sum

\* The ratings [5,5,4,3,3] were summarised: two 3s, one 4, two 5s, no 1 or 2.
C22_Witness ==
    /\ stat.total = 5
    /\ stat.distribution = [v \in 1..5 |-> CASE v = 3 -> 2 [] v = 4 -> 1
                                              [] v = 5 -> 2 [] OTHER -> 0]

\* C23: the average is sum/count rounded half-up to one decimal (in tenths:
\* the floor of 10*sum/count + 1/2), 0 for no ratings, 4.0 for [5,5,4,3,3],
\* and the admin views compute the same value.
C23_AverageHalfUp ==
    /\ AverageRating(stat.sum, stat.total) =
         (IF stat.total = 0 THEN 0
          ELSE (20 * stat.sum + stat.total) \div (2 * stat.total))
    /\ AverageRatingAdmin(stat.sum, stat.total)
         = AverageRating(stat.sum, stat.total)
    /\ (stat.total = 5 /\ stat.sum = 20)
       => AverageRating(stat.sum, stat.total) = 40

\* The day six calendar months before today: the same day of the month, or
\* the last day of that month when it is shorter.
CalendarSixMonthsAgo(today) ==
    LET y == today.year + ((today.month - 6) \div 12)
        m == (today.month - 6) % 12
        dim == DaysInMonth(y, m)
    IN [year |-> y, month |-> m,
        day |-> IF today.day <= dim THEN today.day ELSE dim]

\* The positions in allRatings of the ratings inside the trailing six months.
InWindow(since) ==
    {i \in 1..Len(dash.allRatings) :
        /\ DateLeq(since, dash.allRatings[i].createdAt)
        /\ DateLeq(dash.allRatings[i].createdAt, dash.today)}

\* The trend is right for the window that starts on the day since: one bucket
\* for each (month, year) of a rating in the window, holding the number of
\* those ratings, and the buckets strictly ascending by year and month.
TrendRightSince(since) ==
    LET T == RatingTrend(dash.allRatings, dash.today)
        W == InWindow(since)
        KeyOf(i) == <<dash.allRatings[i].createdAt.year,
                      dash.allRatings[i].createdAt.month>>
        KeyAt(j) == <<T[j].year, MonthIndexOf(T[j].month)>>
    IN /\ {KeyAt(j) : j \in 1..Len(T)} = {KeyOf(i) : i \in W}
       /\ \A j \in 1..Len(T) :
            T[j].count = Cardinality({i \in W : KeyOf(i) = KeyAt(j)})
       /\ \A j, k \in 1..Len(T) :
            j < k => \/ T[j].year < T[k].year
                     \/ /\ T[j].year = T[k].year
                        /\ MonthIndexOf(T[j].month) < MonthIndexOf(T[k].month)

\* C24: the monthly trend has exactly one bucket per (month, year) with a
\* rating inside the trailing six months, counts every such rating in exactly
\* one bucket and no other rating, and is in strictly ascending chronological
\* order whatever the order the ratings were read in.
C24_TrendBuckets ==
    dash.today # NoDate => TrendRightSince(CalendarSixMonthsAgo(dash.today))

\* C25: every stored rating has a value in 1..5.
C25_StoredValueInRange ==
    \A r \in DOMAIN ratings : ratings[r].value \in 1..5

\* A rating request with value 6 was refused by the validation and a rating
\* written by a request holds the value 2.
C25_Witness ==
    /\ \E p \in Procs : /\ Done(p) /\ req[p].op \in {"createRating", "updateRating"}
                        /\ req[p].value = 6
                        /\ req[p].outcome = "ValidationFailed"
    /\ \E r \in DOMAIN ratings : ratings[r].value = 2

\* Request p has passed the USER role check, the validation of its payload
\* and, for update and delete, the authorship check.
PassedRatingChecks(p) ==
    /\ req[p].op \in RatingOps
    /\ req[p].user.id = req[p].token /\ req[p].user.role = "USER"
    /\ req[p].op = "createRating" => ValidateRatingCreate(req[p])
    /\ req[p].op = "updateRating" => ValidateRatingUpdate(req[p])
    /\ req[p].op \in {"updateRating", "deleteRating"}
       => req[p].rec.id = req[p].user.id

\* C26 as it was stated: whatever request changes the ratings has passed
\* verifyToken, verifyUser, the validation and, for update and delete,
\* canModifyRating.
C26_EveryRatingWriteChecked ==
    [][\A p \in Procs :
          (req'[p].pc # req[p].pc /\ ratings' # ratings)
          => PassedRatingChecks(p)]_vars

\* C26: a request to a rating route is answered by verifyToken, verifyUser and
\* the validation in that order; it is in its controller only after passing
\* them and, for update and delete, canModifyRating; it changes the ratings
\* only in the controller's write; and a request refused by a check leaves
\* the ratings as they were.
C26_RatingRouteWritesChecked ==
    [][\A p \in Procs :
          req[p].op \in RatingOps =>
            /\ StepFrom(p, "verifyToken")
               => IF req[p].token \notin DOMAIN users
                  THEN req'[p].pc = "done" /\ req'[p].outcome = "Unauthenticated"
                  ELSE IF users[req[p].token].role # "USER"
                  THEN req'[p].pc = "done" /\ req'[p].outcome = "Forbidden"
                  ELSE IF \/ req[p].op = "createRating" /\ ~ValidateRatingCreate(req[p])
                          \/ req[p].op = "updateRating" /\ ~ValidateRatingUpdate(req[p])
                  THEN req'[p].pc = "done" /\ req'[p].outcome = "ValidationFailed"
                  ELSE req'[p].pc = FirstPc(req[p].op)
            /\ req[p].pc \in {"cr_findStore", "cr_findRating", "cr_create",
                               "ur_update", "dr_delete"}
               => PassedRatingChecks(p)
            /\ (req'[p].pc # req[p].pc /\ ratings' # ratings)
               => req[p].pc \in {"cr_create", "ur_update", "dr_delete"}
            /\ (req[p].pc \in {"verifyToken", "canModifyRating"}
                  /\ req'[p].pc = "done")
               => ratings' = ratings]_vars

\* An OWNER who sent an invalid payload to a rating route was refused for the
\* role, and an admin deleteStore removed a rating.
C26_Witness ==
    \E p, q \in Procs :
        /\ Done(p) /\ req[p].op \in RatingOps /\ req[p].user.role = "OWNER"
        /\ req[p].value = 6 /\ req[p].outcome = "Forbidden"
        /\ Done(q) /\ req[q].op = "deleteStore" /\ req[q].outcome = "OK"
        /\ \E r \in DOMAIN tomb : tomb[r].storeId = req[q].storeId

\* C27: verifyToken judges a request by the role stored for the token's user
\* when it runs, whatever role the token was issued with, and answers
\* Unauthenticated when that user is gone; verifyOwner judges by the role
\* stored when it runs.
C27_CurrentRoleDecides ==
    [][\A p \in Procs :
          /\ (StepFrom(p, "verifyToken") /\ req[p].token \notin {"none", "bad"})
             => IF req[p].token \notin DOMAIN users
                THEN req'[p].pc = "done" /\ req'[p].outcome = "Unauthenticated"
                ELSE /\ req'[p].user.role = users[req[p].token].role
                     /\ req[p].op \in AdminOps
                        => ((req'[p].pc = "done" /\ req'[p].outcome = "Forbidden")
                             <=> users[req[p].token].role # "ADMIN")
                     /\ req[p].op \in RatingOps
                        => /\ users[req[p].token].role # "USER"
                              => (req'[p].pc = "done"
                                    /\ req'[p].outcome = "Forbidden")
                           /\ users[req[p].token].role = "USER"
                              => req'[p].outcome # "Forbidden"
          /\ StepFrom(p, "vo_role")
             => ((req'[p].pc = "done" /\ req'[p].outcome = "Forbidden")
                  <=> (\/ req[p].user.id \notin DOMAIN users
                       \/ users[req[p].user.id].role # "OWNER"))]_vars

\* A request that came with the token issued to u2 as OWNER, after an admin
\* made u2 an ADMIN, was let through an admin route.
C27_Witness ==
    \E p \in Procs :
        /\ Done(p) /\ req[p].op \in AdminOps /\ req[p].token = "u2"
        /\ TokenRole(req[p].token) = "OWNER" /\ req[p].user.role = "ADMIN"
        /\ req[p].outcome # "Forbidden"

\* C28: every rating refers to a user and to a store that exist.
C28_RatingsReferToRows ==
    \A r \in DOMAIN ratings :
        /\ ratings[r].userId \in DOMAIN users
        /\ ratings[r].storeId \in DOMAIN stores

\* A createRating wrote between the deleteMany and the store.delete of a
\* deleteStore: the store.delete was refused and the store is kept with the
\* new rating.
C28_Witness ==
    \E p \in Procs :
        /\ Done(p) /\ req[p].op = "deleteStore" /\ req[p].err = "StoreHasRatings"
        /\ req[p].storeId \in DOMAIN stores
        /\ RatingsOfStore(ratings, req[p].storeId) # {}

\* C29: a deleteStore or deleteUser that ends with an error has removed
\* nothing.
C29_DeleteAllOrNothing ==
    \A p \in Procs :
        (/\ Done(p) /\ req[p].op \in {"deleteStore", "deleteUser"}
         /\ req[p].outcome = "ServerError")
        => ~req[p].wrote

\* C30: the owner of every store has role OWNER or ADMIN and every user with
\* role OWNER owns a store.
C30_OwnerRoleMatchesStore ==
    /\ \A s \in DOMAIN stores :
          /\ stores[s].ownerId \in DOMAIN users
          /\ users[stores[s].ownerId].role \in {"OWNER", "ADMIN"}
    /\ \A u \in DOMAIN users :
          users[u].role = "OWNER" => StoresOwnedBy(stores, u) # {}

====
